---- MODULE Spec2Model ----
(***************************************************************************)
(* A model of the Choppinzskys API backend (src/main.py): the static menu  *)
(* catalog, the inquiry submission/listing routes over the document store  *)
(* adapter, the diagnostic route, and the way the server's single event    *)
(* loop runs the handlers.                                                 *)
(*                                                                         *)
(* Text is modelled as TLA+ strings where it is only stored and compared,  *)
(* and as sequences of one-character strings where the code slices or      *)
(* concatenates it (str(e)[:50], str(ObjectId)).  The emoji that prefix    *)
(* the diagnostic texts of test_database are left out of the literals.     *)
(* A response body that is a JSON array is held under the field list, and  *)
(* query parameters are a record, so that every body and every request     *)
(* input is a record.                                                      *)
(***************************************************************************)
EXTENDS Integers, Sequences, FiniteSets, TLC

VARIABLES
    env,      \* os.environ: which of DATABASE_URL / DATABASE_NAME are set
    db,       \* database.db, the process-wide store handle (None or a handle)
    storeErr, \* the store's present condition: NoError or the error it raises
    cols,     \* names of the other collections the database holds
    docs,     \* collection "inquiry": the stored documents, in iteration order
    menu,     \* the module-level list MENU_DATA
    last,     \* the most recent request and its response
    issued,   \* history: the successful POSTs in order (id returned, document created)
    reqs,     \* requests in flight, one per client connection
    loop      \* which request's coroutine holds the event-loop thread (0: none)

vars == <<env, db, storeErr, cols, docs, menu, last, issued, reqs, loop>>

----------------------------------------------------------------------------
(* Bounds of the model *)

\* how many documents the model creates on top of the initial store content
MaxNew == 2
\* identifiers the store may pick from, beyond the number of stored documents
IdSlack == 2
\* how far the long error message exceeds the diagnostic truncation length
ExtraLen == 3
\* client connections of the event-loop model
NSlots == 2

(* Program constants *)

\* list_inquiries(limit: int = 10)
DefaultLimit == 10
\* str(e)[:50] in test_database
DiagMsgLen == 50
\* collections[:10] in test_database
MaxListed == 10

----------------------------------------------------------------------------
(* Helpers *)

Min(a, b) == IF a <= b THEN a ELSE b

\* Python's s[:n] for n >= 0
Take(s, n) == SubSeq(s, 1, Min(n, Len(s)))

InsertAt(s, i, x) == SubSeq(s, 1, i - 1) \o <<x>> \o SubSeq(s, i, Len(s))

Digits == <<"0", "1", "2", "3", "4", "5", "6", "7", "8", "9">>

RECURSIVE ObjectIdStr(_)
\* str(ObjectId): the identifier's rendering as text, one character per element
ObjectIdStr(n) ==
    IF n < 10 THEN <<Digits[n + 1]>>
    ELSE ObjectIdStr(n \div 10) \o <<Digits[(n % 10) + 1]>>

NoneStr == <<"N", "o", "n", "e">>

----------------------------------------------------------------------------
(* The static menu catalog *)

Img(id) == <<"https://images.unsplash.com/photo-", id, "?q=80&w=1400&auto=format&fit=crop">>

MenuItem(id, name, description, image, category) ==
    [id |-> id, name |-> name, description |-> description,
     image |-> image, category |-> category]

MenuCategory(key, title, items) == [key |-> key, title |-> title, items |-> items]

MENU_DATA ==
    << MenuCategory("african", "African Delights",
         << MenuItem("puff-puff", "Puff Puff",
                     "Golden, fluffy bites lightly dusted with sugar.",
                     Img("1617191518205-29c76d7d6672"), "African Delights"),
            MenuItem("akara", "Akara",
                     "Crisp bean fritters with a soft, fragrant center.",
                     Img("1604908553982-57e1bdf4cf0f"), "African Delights"),
            MenuItem("fried-yam", "Fried Yam",
                     "Hearty yam chips, golden and perfectly seasoned.",
                     Img("1547592180-85f173990554"), "African Delights"),
            MenuItem("plantain", "Plantain",
                     "Sweet ripe plantain slices, caramelized to perfection.",
                     Img("1543332164-6e82f355badc"), "African Delights") >>),
       MenuCategory("pastries", "Savory Pastries & Rolls",
         << MenuItem("samosa", "Samosa",
                     "Crisp pastry stuffed with spiced vegetables or meat.",
                     Img("1683021712492-27cf3ad5f222"), "Savory Pastries & Rolls"),
            MenuItem("spring-rolls", "Spring Rolls",
                     "Delicate rolls with a vibrant vegetable filling.",
                     Img("1512058564366-18510be2db19"), "Savory Pastries & Rolls"),
            MenuItem("meat-pie", "Meat Pie",
                     "Buttery pastry with a rich, savory filling.",
                     Img("1541781286675-7b3c9817e3d5"), "Savory Pastries & Rolls"),
            MenuItem("fish-roll", "Fish Roll",
                     "Flaky pastry embracing spiced fish.",
                     Img("1541781774459-bb2af2f05b55"), "Savory Pastries & Rolls"),
            MenuItem("chicken-roll", "Chicken Roll",
                     "Tender chicken seasoned and wrapped in golden pastry.",
                     Img("1543336661-08fc734e01d2"), "Savory Pastries & Rolls") >>),
       MenuCategory("global", "Global Favourites",
         << MenuItem("potato-swirls", "Potato Swirls",
                     "Fun, crispy swirls with a fluffy potato center.",
                     Img("1551183053-bf91a1d81141"), "Global Favourites") >>) >>

----------------------------------------------------------------------------
(* Request bodies and the Inquiry schema *)

\* a JSON value of a request body, with its JSON type
JStr(s) == [type |-> "str", val |-> s]
JNum(s) == [type |-> "int", val |-> s]

\* the fields of schemas.Inquiry; each is a required string
InquiryFields == {"name", "contact", "message"}

\* pydantic's validation of the request body against Inquiry
ValidInquiry(body) ==
    /\ InquiryFields \subseteq DOMAIN body
    /\ \A k \in InquiryFields : body[k].type = "str"

\* the validated model as a plain record (model_dump)
Inquiry(body) == [k \in InquiryFields |-> body[k].val]

\* the request body as plain values
Submitted(body) == [k \in DOMAIN body |-> body[k].val]

\* the 422 body: which fields failed
ValidationDetail(body) ==
    LET Failed(k) == k \notin DOMAIN body \/ body[k].type # "str"
    IN  [detail |-> SelectSeq(<<"name", "contact", "message">>, Failed)]

AdaBody ==
    [name |-> JStr("Ada"), contact |-> JStr("ada@example.com"),
     message |-> JStr("Catering for 20")]
BobBody ==
    [name |-> JStr("Bob"), contact |-> JStr("bob@example.com"),
     message |-> JStr("Party of 5")]
\* no message field
MissingBody == [name |-> JStr("Ada"), contact |-> JStr("ada@example.com")]
\* message is a number
WrongTypeBody ==
    [name |-> JStr("Ada"), contact |-> JStr("ada@example.com"), message |-> JNum("20")]

Bodies == {AdaBody, BobBody, MissingBody, WrongTypeBody}

\* the query string of GET /api/inquiries: limit is <<>> without limit=, <<n>>
\* with limit=n
Query(limit) == [limit |-> limit]
Queries ==
    {Query(<<>>), Query(<<0>>), Query(<<1>>), Query(<<2>>),
     Query(<<DefaultLimit + 1 + MaxNew>>)}

\* a request without body and parameters
NoArg == [none |-> TRUE]

----------------------------------------------------------------------------
(* The document store adapter (module database) *)

None == [kind |-> "None"]
Handle == [kind |-> "Database", name |-> "appdb"]

NoError == <<>>
UnavailableMsg == <<"u", "n", "a", "v", "a", "i", "l", "a", "b", "l", "e">>
ShortMsg == <<"t", "i", "m", "e", "d", " ", "o", "u", "t">>
LongMsg == [i \in 1..(DiagMsgLen + ExtraLen) |-> IF i <= DiagMsgLen THEN "x" ELSE "y"]
StoreErrors == {ShortMsg, LongMsg}

Raise(msg, d) == [raised |-> TRUE, exc |-> msg, value |-> <<>>, docs |-> d]
Return(v, d) == [raised |-> FALSE, exc |-> <<>>, value |-> v, docs |-> d]

\* the identifiers the store may assign to a new document of collection d
FreshIds(d) == (1..(Len(d) + IdSlack)) \ {d[i]["_id"] : i \in 1..Len(d)}

\* where the store's iteration order may place a new document of collection d:
\* before the documents it holds (newest first) or after them (oldest first)
Places(d) == {1, Len(d) + 1}

\* create_document(collection_name, record): inserts one document under the
\* store-assigned identifier oid, at place pos of the store's iteration order;
\* the result is the identifier as text
create_document(d, collection_name, data, oid, pos) ==
    IF db = None THEN Raise(UnavailableMsg, d)
    ELSE IF storeErr # NoError THEN Raise(storeErr, d)
    ELSE Return(ObjectIdStr(oid), InsertAt(d, pos, ("_id" :> oid) @@ data))

\* get_documents(collection_name, limit): at most limit documents
get_documents(d, collection_name, limit) ==
    IF db = None THEN Raise(UnavailableMsg, d)
    ELSE IF storeErr # NoError THEN Raise(storeErr, d)
    ELSE Return(Take(d, limit), d)

\* db.list_collection_names()
list_collection_names ==
    IF storeErr # NoError THEN Raise(storeErr, docs)
    ELSE Return((IF docs # <<>> THEN <<"inquiry">> ELSE <<>>) \o cols, docs)

----------------------------------------------------------------------------
(* The route handlers of src/main.py.  Each yields the response (status and *)
(* body) and the new value of the state it works on.                        *)

read_root == [status |-> 200, body |-> [message |-> "Hello from FastAPI Backend!"]]

hello == [status |-> 200, body |-> [message |-> "Hello from the backend API!"]]

\* test_database without the inner try/except: the listing error escapes
test_database_uncaught ==
    IF db # None /\ list_collection_names.raised
    THEN [status |-> 500, body |-> [detail |-> <<"Internal Server Error">>]]
    ELSE [status |-> 200,
          body |-> [backend |-> <<"Running">>,
                    database |-> IF db # None THEN <<"Connected & Working">>
                                 ELSE <<"Available but not initialized">>,
                    database_url |-> IF env.DATABASE_URL THEN "Set" ELSE "Not Set",
                    database_name |-> IF env.DATABASE_NAME THEN "Set" ELSE "Not Set",
                    connection_status |-> IF db # None THEN "Connected"
                                          ELSE "Not Connected",
                    collections |-> IF db # None
                                    THEN Take(list_collection_names.value, MaxListed)
                                    ELSE <<>>]]

test_database ==
    LET response ==
            [backend |-> <<"Running">>, database |-> <<"Not Available">>,
             database_url |-> "None", database_name |-> "None",
             connection_status |-> "Not Connected", collections |-> <<>>]
        connected ==
            [response EXCEPT !.database = <<"Available">>,
                             !.database_url = "Configured",
                             !.database_name = db.name,
                             !.connection_status = "Connected"]
        listed == list_collection_names
        probed ==
            IF db # None
            THEN IF ~listed.raised
                 THEN [connected EXCEPT !.collections = Take(listed.value, MaxListed),
                                        !.database = <<"Connected & Working">>]
                 ELSE [connected EXCEPT
                          !.database = <<"Connected but Error: ">>
                                          \o Take(listed.exc, DiagMsgLen)]
            ELSE [response EXCEPT !.database = <<"Available but not initialized">>]
    IN  [status |-> 200,
         body |-> [probed EXCEPT
                      !.database_url = IF env.DATABASE_URL THEN "Set" ELSE "Not Set",
                      !.database_name = IF env.DATABASE_NAME THEN "Set" ELSE "Not Set"]]

\* get_menu consuming the list it serves (MENU_DATA.pop(0))
get_menu_pop == [status |-> 200, body |-> [list |-> menu], menu |-> Tail(menu)]

get_menu == [status |-> 200, body |-> [list |-> menu], menu |-> menu]

\* create_inquiry taking the body as a plain dict: nothing is validated
create_inquiry_unvalidated(body, oid, pos) ==
    LET r == create_document(docs, "inquiry", [k \in DOMAIN body |-> body[k].val],
                             oid, pos)
    IN  IF r.raised
        THEN [status |-> 500, body |-> [detail |-> r.exc], docs |-> r.docs]
        ELSE [status |-> 200, body |-> [status |-> "ok", id |-> r.value],
              docs |-> r.docs]

\* create_inquiry without try/except: the framework answers an escaped
\* exception with its own body
create_inquiry_uncaught(body, oid, pos) ==
    IF ~ValidInquiry(body)
    THEN [status |-> 422, body |-> ValidationDetail(body), docs |-> docs]
    ELSE LET r == create_document(docs, "inquiry", Inquiry(body), oid, pos)
         IN  IF r.raised
             THEN [status |-> 500, body |-> [detail |-> <<"Internal Server Error">>],
                   docs |-> r.docs]
             ELSE [status |-> 200, body |-> [status |-> "ok", id |-> r.value],
                   docs |-> r.docs]

\* create_inquiry writing an upsert keyed on the contact: a document of the
\* same contact is overwritten in place
create_inquiry_upsert(body, oid, pos) ==
    IF ~ValidInquiry(body)
    THEN [status |-> 422, body |-> ValidationDetail(body), docs |-> docs]
    ELSE LET same == {i \in 1..Len(docs) : docs[i].contact = body.contact.val}
             r == create_document(docs, "inquiry", Inquiry(body), oid, pos)
         IN  IF r.raised
             THEN [status |-> 500, body |-> [detail |-> r.exc], docs |-> r.docs]
             ELSE IF same = {}
             THEN [status |-> 200, body |-> [status |-> "ok", id |-> r.value],
                   docs |-> r.docs]
             ELSE LET i == CHOOSE i \in same : TRUE
                  IN  [status |-> 200,
                       body |-> [status |-> "ok", id |-> ObjectIdStr(docs[i]["_id"])],
                       docs |-> [docs EXCEPT ![i] =
                                    ("_id" :> docs[i]["_id"]) @@ Inquiry(body)]]

create_inquiry(body, oid, pos) ==
    IF ~ValidInquiry(body)
    THEN [status |-> 422, body |-> ValidationDetail(body), docs |-> docs]
    ELSE LET r == create_document(docs, "inquiry", Inquiry(body), oid, pos)
         IN  IF r.raised
             THEN [status |-> 500, body |-> [detail |-> r.exc], docs |-> r.docs]
             ELSE [status |-> 200, body |-> [status |-> "ok", id |-> r.value],
                   docs |-> r.docs]

\* normalize reading the wrong key: str(doc.get("id"))
normalize_by_id(doc) ==
    [k \in (DOMAIN doc \ {"_id"}) \cup {"id"} |->
        IF k = "id"
        THEN IF "id" \in DOMAIN doc THEN ObjectIdStr(doc["id"]) ELSE NoneStr
        ELSE doc[k]]

\* normalize without the key filter: _id stays in the record
normalize_keep(doc) ==
    [k \in DOMAIN doc \cup {"id"} |->
        IF k = "id"
        THEN IF "_id" \in DOMAIN doc THEN ObjectIdStr(doc["_id"]) ELSE NoneStr
        ELSE doc[k]]

normalize(doc) ==
    [k \in (DOMAIN doc \ {"_id"}) \cup {"id"} |->
        IF k = "id"
        THEN IF "_id" \in DOMAIN doc THEN ObjectIdStr(doc["_id"]) ELSE NoneStr
        ELSE doc[k]]

\* the limit parameter with a default above 10: limit: int = 100
LimitOfWide(query) ==
    IF query.limit = <<>> THEN DefaultLimit * DefaultLimit ELSE query.limit[1]

\* the value of the limit parameter: limit: int = 10
LimitOf(query) == IF query.limit = <<>> THEN DefaultLimit ELSE query.limit[1]

\* list_inquiries not passing the limit on: get_documents("inquiry")
list_inquiries_nolimit(query) ==
    LET r == get_documents(docs, "inquiry", Len(docs))
    IN  IF r.raised
        THEN [status |-> 500, body |-> [detail |-> r.exc], docs |-> r.docs]
        ELSE [status |-> 200,
              body |-> [list |-> [i \in 1..Len(r.value) |-> normalize(r.value[i])]],
              docs |-> r.docs]

list_inquiries(query) ==
    LET r == get_documents(docs, "inquiry", LimitOf(query))
    IN  IF r.raised
        THEN [status |-> 500, body |-> [detail |-> r.exc], docs |-> r.docs]
        ELSE [status |-> 200,
              body |-> [list |-> [i \in 1..Len(r.value) |-> normalize(r.value[i])]],
              docs |-> r.docs]

----------------------------------------------------------------------------
(* Serving one request: the handler's effect on the state and the response *)

\* the error a store call would raise now (NoError: none)
StoreFault == IF db = None THEN UnavailableMsg ELSE storeErr

\* last: the request, its response, and the store as the request found and left it
Respond(route, arg, out) ==
    last' = [route |-> route, arg |-> arg, status |-> out.status, body |-> out.body,
             fault |-> StoreFault, before |-> docs, after |-> docs']

DoReadRoot ==
    /\ UNCHANGED <<docs, menu, issued>>
    /\ Respond("root", NoArg, read_root)

DoHello ==
    /\ UNCHANGED <<docs, menu, issued>>
    /\ Respond("hello", NoArg, hello)

DoTestDatabase ==
    /\ UNCHANGED <<docs, menu, issued>>
    /\ Respond("test", NoArg, test_database)

DoGetMenu ==
    LET out == get_menu
    IN  /\ menu' = out.menu
        /\ UNCHANGED <<docs, issued>>
        /\ Respond("menu", NoArg, out)

DoCreateInquiry(body) ==
    \E oid \in FreshIds(docs), pos \in Places(docs) :
        LET out == create_inquiry(body, oid, pos)
        IN  /\ docs' = out.docs
            /\ issued' = IF out.status = 200
                         THEN Append(issued, [id |-> out.body.id, oid |-> oid,
                                              payload |-> Submitted(body)])
                         ELSE issued
            /\ UNCHANGED menu
            /\ Respond("post", body, out)

DoListInquiries(query) ==
    LET out == list_inquiries(query)
    IN  /\ docs' = out.docs
        /\ UNCHANGED <<menu, issued>>
        /\ Respond("get", query, out)

----------------------------------------------------------------------------
(* Initial states *)

NoRequest ==
    [route |-> "none", arg |-> NoArg, status |-> 0, body |-> NoArg,
     fault |-> NoError, before |-> <<>>, after |-> <<>>]

Idle == [st |-> "idle", route |-> "none", arg |-> NoArg, status |-> 0]

Slots == 1..NSlots

\* documents created before this run: one more than the default limit returns
BaseDocs ==
    [i \in 1..(DefaultLimit + 1) |->
        ("_id" :> i) @@ Inquiry(IF i % 2 = 1 THEN AdaBody ELSE BobBody)]

\* collections of other applications: one more than test_database lists
OtherCols == [i \in 1..(MaxListed + 1) |-> <<"c">> \o ObjectIdStr(i)]

\* the connection is established at startup from the configuration; without
\* DATABASE_URL or DATABASE_NAME the handle stays None.  The database is new
\* and empty, or holds the documents and collections of earlier runs.
Init ==
    /\ env \in [DATABASE_URL : BOOLEAN, DATABASE_NAME : BOOLEAN]
    /\ db \in IF env.DATABASE_URL /\ env.DATABASE_NAME THEN {Handle, None} ELSE {None}
    /\ storeErr = NoError
    /\ \E populated \in IF db = None THEN {FALSE} ELSE BOOLEAN :
          /\ cols = IF populated THEN OtherCols ELSE <<>>
          /\ docs = IF populated THEN BaseDocs ELSE <<>>
    /\ menu = MENU_DATA
    /\ last = NoRequest
    /\ issued = <<>>
    /\ reqs = [r \in Slots |-> Idle]
    /\ loop = 0

----------------------------------------------------------------------------
(* Requests served one at a time *)

Frame == UNCHANGED <<env, db, storeErr, cols, reqs, loop>>

ReadRoot == DoReadRoot /\ Frame

Hello == DoHello /\ Frame

TestDatabase == DoTestDatabase /\ Frame

GetMenu == DoGetMenu /\ Frame

CreateInquiry ==
    /\ Len(issued) < MaxNew
    /\ \E body \in Bodies : DoCreateInquiry(body)
    /\ Frame

ListInquiries ==
    /\ \E query \in Queries : DoListInquiries(query)
    /\ Frame

\* the store becomes unreachable or starts rejecting operations
StoreFails ==
    /\ db # None
    /\ storeErr = NoError
    /\ storeErr' \in StoreErrors
    /\ UNCHANGED <<env, db, cols, docs, menu, last, issued, reqs, loop>>

StoreRecovers ==
    /\ storeErr # NoError
    /\ storeErr' = NoError
    /\ UNCHANGED <<env, db, cols, docs, menu, last, issued, reqs, loop>>

Next ==
    \/ ReadRoot
    \/ Hello
    \/ TestDatabase
    \/ GetMenu
    \/ CreateInquiry
    \/ ListInquiries
    \/ StoreFails
    \/ StoreRecovers

Spec == Init /\ [][Next]_vars

----------------------------------------------------------------------------
(* Requests in flight on the server's event loop.                          *)
(*                                                                         *)
(* get_menu, create_inquiry and list_inquiries are coroutines (async def): *)
(* the event-loop thread runs their bodies.  create_document and           *)
(* get_documents are called without await, so the thread stays inside the  *)
(* store call until it returns.  read_root, hello and test_database are    *)
(* plain functions: the loop hands them to a worker thread and sends the   *)
(* response when the loop thread is free.                                  *)

AsyncRoutes == {"menu", "post", "get"}
SyncRoutes == {"root", "hello", "test"}
StoreRoutes == {"post", "get"}

ArgsOf(route) ==
    CASE route = "post" -> {AdaBody, MissingBody}
      [] route = "get" -> {Query(<<>>), Query(<<1>>)}
      [] OTHER -> {NoArg}

\* POST requests accepted and not yet answered
PostsInFlight ==
    Cardinality({r \in Slots : reqs[r].route = "post" /\ reqs[r].st \notin {"idle", "done"}})

\* the handler of a route, run on the present state
Handle_(route, arg) ==
    CASE route = "root" -> DoReadRoot
      [] route = "hello" -> DoHello
      [] route = "test" -> DoTestDatabase
      [] route = "menu" -> DoGetMenu
      [] route = "post" -> DoCreateInquiry(arg)
      [] route = "get" -> DoListInquiries(arg)

LiveFrame == UNCHANGED <<env, db, storeErr, cols>>

Quiet == UNCHANGED <<docs, menu, last, issued>>

\* a client sends a request on connection r
Arrive(r) ==
    /\ reqs[r].st = "idle"
    /\ \E route \in AsyncRoutes \cup SyncRoutes :
          /\ route = "post" => Len(issued) + PostsInFlight < MaxNew
          /\ \E arg \in ArgsOf(route) :
                reqs' = [reqs EXCEPT ![r] = [st |-> "pending", route |-> route,
                                             arg |-> arg, status |-> 0]]
    /\ UNCHANGED loop
    /\ Quiet /\ LiveFrame

\* the event loop starts the coroutine of an async def route
Begin(r) ==
    /\ reqs[r].st = "pending"
    /\ reqs[r].route \in AsyncRoutes
    /\ loop = 0
    /\ loop' = r
    /\ reqs' = [reqs EXCEPT ![r].st = "running"]
    /\ Quiet /\ LiveFrame

\* the store call made by the coroutine never returns
Hang(r) ==
    /\ reqs[r].st = "running"
    /\ reqs[r].route \in StoreRoutes
    /\ reqs[r].route = "post" => ValidInquiry(reqs[r].arg)
    /\ db # None
    /\ reqs' = [reqs EXCEPT ![r].st = "hung"]
    /\ UNCHANGED loop
    /\ Quiet /\ LiveFrame

\* the coroutine runs to its return; the loop thread is free again
Finish(r) ==
    /\ reqs[r].st = "running"
    /\ loop = r
    /\ Handle_(reqs[r].route, reqs[r].arg)
    /\ reqs' = [reqs EXCEPT ![r].st = "done", ![r].status = last'.status]
    /\ loop' = 0
    /\ LiveFrame

\* the event loop hands a plain def route to a worker thread
Dispatch(r) ==
    /\ reqs[r].st = "pending"
    /\ reqs[r].route \in SyncRoutes
    /\ loop = 0
    /\ reqs' = [reqs EXCEPT ![r].st = "inthread"]
    /\ UNCHANGED loop
    /\ Quiet /\ LiveFrame

\* the worker thread has run the handler; the event loop sends the response
Complete(r) ==
    /\ reqs[r].st = "inthread"
    /\ loop = 0
    /\ Handle_(reqs[r].route, reqs[r].arg)
    /\ reqs' = [reqs EXCEPT ![r].st = "done", ![r].status = last'.status]
    /\ UNCHANGED loop
    /\ LiveFrame

\* the client has read the response; the connection takes the next request
Collect(r) ==
    /\ reqs[r].st = "done"
    /\ reqs' = [reqs EXCEPT ![r] = Idle]
    /\ UNCHANGED loop
    /\ Quiet /\ LiveFrame

InitLive ==
    /\ env = [DATABASE_URL |-> TRUE, DATABASE_NAME |-> TRUE]
    /\ db = Handle
    /\ storeErr = NoError
    /\ cols = <<>>
    /\ docs = <<>>
    /\ menu = MENU_DATA
    /\ last = NoRequest
    /\ issued = <<>>
    /\ reqs = [r \in Slots |-> Idle]
    /\ loop = 0

NextLive ==
    \E r \in Slots :
        \/ Arrive(r)
        \/ Begin(r)
        \/ Hang(r)
        \/ Finish(r)
        \/ Dispatch(r)
        \/ Complete(r)
        \/ Collect(r)

\* the loop runs every ready callback in turn (a FIFO queue), and a handler
\* that is running runs on unless its store call hangs
Fairness ==
    \A r \in Slots :
        /\ SF_vars(Begin(r))
        /\ SF_vars(Dispatch(r))
        /\ SF_vars(Complete(r))
        /\ WF_vars(Finish(r))

SpecLive == InitLive /\ [][NextLive]_vars /\ Fairness

----------------------------------------------------------------------------
(* Properties *)

\* the fields of a returned record other than id
NonId(rec) == [k \in DOMAIN rec \ {"id"} |-> rec[k]]

\* the last request was route, answered with status
Was(route, status) == last.route = route /\ last.status = status

\* a successful POST came before the last request, a GET the store answered
PostThenGet == Was("get", 200) /\ issued # <<>>

\* rec is a record of the latest POST: its fields other than id are the payload
\* submitted, and its id is a non-empty string that exactly one stored
\* document and at most one POST response carry
RecordOfPost(rec) ==
    /\ NonId(rec) = issued[Len(issued)].payload
    /\ Len(rec.id) > 0
    /\ Cardinality({j \in 1..Len(last.after) :
                      ObjectIdStr(last.after[j]["_id"]) = rec.id}) = 1
    /\ Cardinality({j \in 1..Len(issued) : issued[j].id = rec.id}) <= 1

C2_LimitZeroEmpty ==
    (Was("get", 200) /\ last.arg.limit = <<0>>) => last.body.list = <<>>

C2_Witness ==
    /\ Was("get", 200)
    /\ last.arg.limit = <<0>>
    /\ Len(last.after) > DefaultLimit
    /\ last.body.list = <<>>

\* C3: GET /api/inquiries with limit N >= 0 returns at most N records, and
\* without a limit parameter at most 10, also when the store holds more.
C3_AtMostLimit ==
    Was("get", 200) =>
        /\ last.arg.limit # <<>> => Len(last.body.list) <= last.arg.limit[1]
        /\ last.arg.limit = <<>> => Len(last.body.list) <= 10

C3_Witness ==
    /\ Was("get", 200)
    /\ last.arg.limit = <<>>
    /\ Len(last.after) > 10
    /\ Len(last.body.list) = 10

\* C4: a POST /api/inquiries whose body lacks a required field or has a field
\* of the wrong type is answered 422, never 500, in every condition of the
\* store, and the stored documents after it are those before it.
C4_InvalidRejected ==
    (last.route = "post" /\ ~ValidInquiry(last.arg)) =>
        /\ last.status = 422
        /\ last.after = last.before
        /\ docs = last.after

C4_Witness ==
    /\ Was("post", 422)
    /\ "message" \notin DOMAIN last.arg
    /\ last.fault # NoError
    /\ issued # <<>>

\* C5: while the store is unavailable or rejects operations, POST
\* /api/inquiries (of a valid body) and GET /api/inquiries answer 500 with the
\* failure message and leave the stored documents as they were, and GET /,
\* /api/hello, /api/menu and /test answer 200; every request is answered.
C5_DegradesPerRoute ==
    last.fault # NoError =>
        /\ (last.route = "post" /\ ValidInquiry(last.arg)) =>
              /\ last.status = 500
              /\ last.body = [detail |-> last.fault]
              /\ last.after = last.before
        /\ last.route = "get" =>
              /\ last.status = 500
              /\ last.body = [detail |-> last.fault]
              /\ last.after = last.before
        /\ last.route \in {"root", "hello", "menu", "test"} => last.status = 200

C5_Witness ==
    /\ Was("post", 500)
    /\ last.fault = LongMsg
    /\ last.body.detail = LongMsg
    /\ last.before # <<>>

\* C6: GET /test answers 200 with the diagnostic object in every state of the
\* store; a listing error appears in the database field, cut to 50 characters;
\* without the store configuration the body reports the store as not connected
\* and the missing setting as not set.
C6_TestNeverFails ==
    last.route = "test" =>
        /\ last.status = 200
        /\ DOMAIN last.body = {"backend", "database", "database_url", "database_name",
                               "connection_status", "collections"}
        /\ Len(last.body.database) <= 1 + 50
        /\ Len(last.body.collections) <= 10
        /\ last.fault \in StoreErrors =>
              last.body.database = <<"Connected but Error: ">> \o Take(last.fault, 50)
        /\ ~(env.DATABASE_URL /\ env.DATABASE_NAME) =>
              /\ last.body.connection_status = "Not Connected"
              /\ last.body.database = <<"Available but not initialized">>
              /\ last.body.collections = <<>>
              /\ ~env.DATABASE_URL => last.body.database_url = "Not Set"
              /\ ~env.DATABASE_NAME => last.body.database_name = "Not Set"

C6_Witness ==
    /\ Was("test", 200)
    /\ last.fault = LongMsg
    /\ Len(last.body.database) = 1 + 50
    /\ last.body.connection_status = "Connected"

\* the documents of d, each with its identifier
DocSet(d) == {d[i] : i \in 1..Len(d)}

\* C7: inquiry documents are only added: a successful POST adds exactly one
\* document under one new identifier, every other request leaves the stored
\* documents as they are, nothing else changes them, and no two documents
\* share an identifier.
C7_AppendOnly ==
    /\ \A i, j \in 1..Len(docs) : docs[i]["_id"] = docs[j]["_id"] => i = j
    /\ last.route # "none" =>
          /\ docs = last.after
          /\ DocSet(last.before) \subseteq DocSet(last.after)
          /\ IF Was("post", 200)
             THEN /\ Len(last.after) = Len(last.before) + 1
                  /\ \E d \in DocSet(last.after) \ DocSet(last.before) :
                        /\ [k \in DOMAIN d \ {"_id"} |-> d[k]]
                              = issued[Len(issued)].payload
                        /\ \A e \in DocSet(last.before) : e["_id"] # d["_id"]
             ELSE last.after = last.before

C7_Witness ==
    /\ Was("get", 200)
    /\ Len(issued) = 2
    /\ Len(docs) = DefaultLimit + 1 + 2

\* C8: GET /api/menu answers 200 with the full catalog of 3 categories, the
\* same on every call whatever came before, and changes neither the catalog
\* nor the stored documents.
C8_MenuStatic ==
    /\ menu = MENU_DATA
    /\ last.route = "menu" =>
          /\ last.status = 200
          /\ last.body.list = MENU_DATA
          /\ Len(last.body.list) = 3
          /\ last.after = last.before
          /\ docs = last.after

C8_Witness ==
    /\ Was("menu", 200)
    /\ Len(issued) = 2
    /\ last.fault # NoError

\* C9: every record GET /api/inquiries returns has no _id field, has as id the
\* text of the identifier of a stored document, the same text the POST that
\* created the document returned, and has that document's other fields as stored.
C9_Normalized ==
    Was("get", 200) =>
        \A n \in 1..Len(last.body.list) :
            LET rec == last.body.list[n]
                d == last.after[n]
            IN  /\ "_id" \notin DOMAIN rec
                /\ DOMAIN rec = (DOMAIN d \ {"_id"}) \cup {"id"}
                /\ \A k \in DOMAIN d \ {"_id"} : rec[k] = d[k]
                /\ rec.id = ObjectIdStr(d["_id"])
                /\ \A j \in 1..Len(issued) :
                      issued[j].oid = d["_id"] =>
                          (rec.id = issued[j].id /\ NonId(rec) = issued[j].payload)

C9_Witness ==
    /\ Was("get", 200)
    /\ Len(last.body.list) = 2
    /\ Len(issued) = 2
    /\ \A n \in 1..2 : \E j \in 1..2 : last.body.list[n].id = issued[j].id

\* C10: a store call that never returns hangs its own request only: every
\* other request in flight is eventually answered.
C10_OthersServed ==
    \A r \in Slots :
        (reqs[r].st = "pending") ~> (reqs[r].st \in {"done", "hung"})

====
